---- MODULE Spec2Model ----
(***************************************************************************)
(* Model of dashboard.py: the startup script that loads the 2019 birth     *)
(* records and the department geometry, derives the per-graph tables and   *)
(* the static figures of the layout, and then serves the two callbacks.    *)
(*                                                                         *)
(* A data frame is a sequence of rows; a row is a function from column     *)
(* names to values.  Row order is the order pandas keeps.                  *)
(***************************************************************************)
EXTENDS Integers, Sequences, FiniteSets, TLC

VARIABLES
    csv,            \* the rows of ./FD_NAIS_2019.csv, as read_csv parses them
    geojson,        \* the "code" column of the remote departements.geojson
    pc,             \* the statement of the script that runs next
    df,             \* the global records frame
    gdf,            \* the index of the global geometry frame
    df_choropleth,  \* the per-department table
    df_barplot,     \* the per-month table
    layout,         \* the figures of app.layout built so far, in order
    graphs          \* the figures the callbacks returned, by output id

vars == <<csv, geojson, pc, df, gdf, df_choropleth, df_barplot, layout, graphs>>

----------------------------------------------------------------------------
(* Bounds of the model. *)

\* longest file of freely chosen records
MaxRecords == 2
\* longest run of February records appended to a file
MaxFeb == 21

----------------------------------------------------------------------------
(* Python and pandas values. *)

\* A cell of DEPNAIS is a Python int or a Python str.
IntVal(n) == [type |-> "int", int |-> n, str |-> ""]
StrVal(s) == [type |-> "str", int |-> 0, str |-> s]

\* NaN of an integer column (an empty cell of the file).
Missing == -1

DigitChar == <<"0", "1", "2", "3", "4", "5", "6", "7", "8", "9">>

RECURSIVE IntToStr(_)
IntToStr(n) ==
    IF n < 10 THEN DigitChar[n + 1]
    ELSE IntToStr(n \div 10) \o DigitChar[(n % 10) + 1]

\* str(dep)
PyStr(v) == IF v.type = "int" THEN IntToStr(v.int) ELSE v.str

\* cell == s, for a str s: an int cell never equals a str
PyEqStr(v, s) == v.type = "str" /\ v.str = s

\* Series.unique(): the distinct values in order of first appearance
RECURSIVE UniqueFrom(_, _, _)
UniqueFrom(s, i, acc) ==
    IF i > Len(s) THEN acc
    ELSE IF \E j \in 1..Len(acc) : acc[j] = s[i]
         THEN UniqueFrom(s, i + 1, acc)
         ELSE UniqueFrom(s, i + 1, Append(acc, s[i]))

Unique(s) == UniqueFrom(s, 1, <<>>)

Column(tbl, c) == [i \in 1..Len(tbl) |-> tbl[i][c]]

Range(s) == {s[i] : i \in 1..Len(s)}

\* sorted(values) of a set of integers
RECURSIVE Sorted(_)
Sorted(S) ==
    IF S = {} THEN <<>>
    ELSE LET m == CHOOSE x \in S : \A y \in S : x <= y
         IN <<m>> \o Sorted(S \ {m})

\* mask.sum(), the number of rows of tbl[mask]: the rows where a boolean
\* mask over the row positions is true
MaskSum(mask) == Cardinality({i \in DOMAIN mask : mask[i]})

\* x / y * 100 of two numpy counts: 0 / 0 is nan (a warning, no exception)
NaN == [nan |-> TRUE, num |-> 0, den |-> 0]
Percent(x, y) ==
    IF y = 0 THEN NaN ELSE [nan |-> FALSE, num |-> 100 * x, den |-> y]

\* np.log of a count: log(0) is -inf
NpLog(n) == [neginf |-> (n = 0), ln_of |-> n]

\* rounding that takes a tie to the next integer up
PyRoundHalfUp(num, den) ==
    IF 2 * (num % den) >= den THEN (num \div den) + 1 ELSE num \div den

\* round(num / den) of a non-negative quotient: Python rounds a tie to the
\* even neighbour.  The quotient is taken exactly; the float product
\* abs / days * 30 is exact at every tie (abs / 28 is a multiple of 1/4).
PyRound(num, den) ==
    LET q == num \div den
        r == num % den
    IN IF 2 * r < den THEN q
       ELSE IF 2 * r > den THEN q + 1
       ELSE IF q % 2 = 0 THEN q ELSE q + 1

\* calendar.monthrange(year, month)[1]
isleap(year) == year % 4 = 0 /\ (year % 100 # 0 \/ year % 400 = 0)
mdays == <<31, 28, 31, 30, 31, 30, 31, 31, 30, 31, 30, 31>>
monthrange_days(year, month) ==
    mdays[month] + (IF month = 2 /\ isleap(year) THEN 1 ELSE 0)

----------------------------------------------------------------------------
(* The input files. *)

Row(dep, month, ageP, ageM, natP, natM, orig, arecm, arecp, amar) ==
    [DEPNAIS |-> dep, MNAIS |-> month, AGEXACTP |-> ageP, AGEXACTM |-> ageM,
     INDNATP |-> natP, INDNATM |-> natM, ORIGINOM |-> orig,
     ARECM |-> arecm, ARECP |-> arecp, AMAR |-> amar, ANAIS |-> 2019]

DepValues ==
    {IntVal(1), IntVal(75), StrVal("01"), StrVal("2A"), StrVal("971")}

Geometries == {<<"01", "2A", "75">>, <<"75", "01">>}

DepRows == {Row(d, 1, 30, 28, 1, 1, 1, 0, 0, 0) : d \in DepValues}

MonthRow(m) == Row(StrVal("75"), m, 30, 28, 1, 1, 1, 0, 0, 0)
MonthRows == {MonthRow(m) : m \in 1..12}

AgePairs == {<<30, 28>>, <<31, 30>>, <<30, 30>>}

NameRows ==
    {Row(StrVal("75"), 1, a[1], a[2], 1, 1, o, 0, 0, 0) :
        a \in AgePairs, o \in {1, 2, 9}}

NatRows ==
    {Row(StrVal("75"), 1, 30, 28, p, m, o, 0, 0, 0) :
        p \in {1, 2}, m \in {1, 2}, o \in {1, 9}}
    \cup {Row(StrVal("75"), 1, 30, 28, 1, 1, o, 0, 0, 0) :
        o \in {2, 3, 4, 5, Missing}}

RecogFlags == {<<0, 0, 0>>, <<2018, 0, 0>>, <<0, 2019, 0>>, <<0, 0, 2017>>}

RecogRows ==
    {Row(StrVal("75"), 1, a[1], a[2], 1, 1, 1, f[1], f[2], f[3]) :
        a \in AgePairs, f \in RecogFlags}

\* the non-empty files of at most MaxRecords rows drawn from Rows
Files(Rows) == UNION {[1..n -> Rows] : n \in 1..MaxRecords}

\* k February records
FebRun(k) == [i \in 1..k |-> MonthRow(2)]

MonthFiles ==
    Files(MonthRows)
    \cup {h \o FebRun(k) :
            h \in {<<>>, <<MonthRow(1)>>, <<MonthRow(3)>>}, k \in 1..MaxFeb}

DefaultGeometry == <<"01", "2A", "75">>

Init ==
    /\ \/ csv \in Files(DepRows) /\ geojson \in Geometries
       \/ csv \in MonthFiles /\ geojson = DefaultGeometry
       \/ csv \in Files(NameRows) /\ geojson = DefaultGeometry
       \/ csv \in Files(NatRows) /\ geojson = DefaultGeometry
       \/ csv \in Files(RecogRows) /\ geojson = DefaultGeometry
    /\ pc = "clean_and_read_data"
    /\ df = <<>>
    /\ gdf = <<>>
    /\ df_choropleth = <<>>
    /\ df_barplot = <<>>
    /\ layout = <<>>
    /\ graphs = <<>>

----------------------------------------------------------------------------
(* Loading. *)

clean_dep_pads_two(dep) ==
    IF Len(PyStr(dep)) <= 2 THEN "0" \o PyStr(dep) ELSE PyStr(dep)

clean_dep(dep) ==
    IF Len(PyStr(dep)) = 1 THEN "0" \o PyStr(dep) ELSE PyStr(dep)

\* Series.replace(mapping): a cell that is a key becomes the key's value
Replace(tbl, c, mapping) ==
    [i \in 1..Len(tbl) |->
        [tbl[i] EXCEPT ![c] = IF @ \in DOMAIN mapping THEN mapping[@] ELSE @]]

clean_and_read_data_no_cleaning(raw_df) == raw_df

clean_and_read_data(raw_df) ==
    Replace(raw_df, "DEPNAIS",
            [dep \in Range(Unique(Column(raw_df, "DEPNAIS"))) |->
                StrVal(clean_dep(dep))])

LoadData ==
    /\ pc = "clean_and_read_data"
    /\ df' = clean_and_read_data(csv)
    /\ pc' = "read_file"
    /\ UNCHANGED <<csv, geojson, gdf, df_choropleth, df_barplot, layout, graphs>>

LoadGeometry ==
    /\ pc = "read_file"
    /\ gdf' = geojson
    /\ pc' = "df_choropleth"
    /\ UNCHANGED <<csv, geojson, df, df_choropleth, df_barplot, layout, graphs>>

----------------------------------------------------------------------------
(* Per-graph data frames. *)

\* df[df["DEPNAIS"] == clean_dep(code)].shape[0] for code in gdf.index,
\* then the log column
BuildChoropleth(records, index) ==
    [i \in 1..Len(index) |->
        LET births ==
                MaskSum([j \in 1..Len(records) |->
                            PyEqStr(records[j]["DEPNAIS"],
                                    clean_dep(StrVal(index[i])))])
        IN ("Department" :> index[i])
           @@ ("Births (abs)" :> births)
           @@ ("Births (log)" :> NpLog(births))]

DfChoropleth ==
    /\ pc = "df_choropleth"
    /\ df_choropleth' = BuildChoropleth(df, gdf)
    /\ pc' = "df_barplot"
    /\ UNCHANGED <<csv, geojson, df, gdf, df_barplot, layout, graphs>>

months ==
    <<"January", "February", "March", "April", "May", "June",
      "July", "August", "September", "October", "November", "December">>

\* DataFrame.sort_values(c): ascending; the keys of the frame are distinct
RECURSIVE InsertSorted(_, _, _)
InsertSorted(sorted, row, c) ==
    IF sorted = <<>> THEN <<row>>
    ELSE IF row[c] < Head(sorted)[c] THEN <<row>> \o sorted
    ELSE <<Head(sorted)>> \o InsertSorted(Tail(sorted), row, c)

RECURSIVE SortFrom(_, _, _, _)
SortFrom(tbl, c, i, acc) ==
    IF i > Len(tbl) THEN acc
    ELSE SortFrom(tbl, c, i + 1, InsertSorted(acc, tbl[i], c))

sort_values_unsorted(tbl, c) == tbl

sort_values(tbl, c) == SortFrom(tbl, c, 1, <<>>)

procreation_off_by_one ==
    [m \in Range(months) |->
        CASE m = "January" -> "May 2018"
          [] m = "February" -> "June 2018"
          [] m = "March" -> "July 2018"
          [] m = "April" -> "August 2018"
          [] m = "May" -> "September 2018"
          [] m = "June" -> "October 2018"
          [] m = "July" -> "November 2018"
          [] m = "August" -> "December 2018"
          [] m = "September" -> "January 2019"
          [] m = "October" -> "February 2019"
          [] m = "November" -> "March 2019"
          [] m = "December" -> "April 2019"]

\* the dictionary given to replace() for "Month (procreation)"
procreation ==
    [m \in Range(months) |->
        CASE m = "January" -> "April 2018"
          [] m = "February" -> "May 2018"
          [] m = "March" -> "June 2018"
          [] m = "April" -> "July 2018"
          [] m = "May" -> "August 2018"
          [] m = "June" -> "September 2018"
          [] m = "July" -> "October 2018"
          [] m = "August" -> "November 2018"
          [] m = "September" -> "December 2018"
          [] m = "October" -> "January 2019"
          [] m = "November" -> "February 2019"
          [] m = "December" -> "March 2019"]

births_norm_half_up(ser) ==
    PyRoundHalfUp(ser["Births (abs)"] * 30, monthrange_days(2019, ser["Month_ind"]))

\* the lambda applied to each row for "Births (norm)"
births_norm(ser) ==
    PyRound(ser["Births (abs)"] * 30, monthrange_days(2019, ser["Month_ind"]))

BuildBarplot(records) ==
    LET uniq == Unique(Column(records, "MNAIS"))
        counted ==
            [i \in 1..Len(uniq) |->
                ("Month_ind" :> uniq[i])
                @@ ("Month (birth)" :> months[uniq[i]])
                @@ ("Births (abs)" :>
                        MaskSum([j \in 1..Len(records) |->
                                    records[j]["MNAIS"] = uniq[i]]))]
        ordered == sort_values(counted, "Month_ind")
        normed ==
            [i \in 1..Len(ordered) |->
                ordered[i] @@ ("Births (norm)" :> births_norm(ordered[i]))]
        labelled ==
            [i \in 1..Len(normed) |->
                normed[i] @@ ("Month (procreation)" :>
                    IF normed[i]["Month (birth)"] \in DOMAIN procreation
                    THEN procreation[normed[i]["Month (birth)"]]
                    ELSE normed[i]["Month (birth)"])]
    IN [i \in 1..Len(labelled) |->
            labelled[i] @@ ("Number" :> labelled[i]["Births (norm)"])]

DfBarplot ==
    /\ pc = "df_barplot"
    /\ df_barplot' = BuildBarplot(df)
    /\ pc' = "layout"
    /\ UNCHANGED <<csv, geojson, df, gdf, df_choropleth, layout, graphs>>

----------------------------------------------------------------------------
(* Static figures of the layout. *)

\* groupby(keys)["ANAIS"].count(): rows with a missing key are dropped and
\* the non-missing ANAIS cells of each group are counted
GroupCount(records, key) ==
    MaskSum([j \in 1..Len(records) |->
                /\ \A c \in DOMAIN key : records[j][c] = key[c]
                /\ records[j]["ANAIS"] # Missing])

\* age_heatmap: the frame of counts by (father's age, mother's age), the
\* index in descending order of mother's age; a pair without records
\* keeps the 0 of fillna (the chained assignment writes through, as in
\* pandas without copy-on-write)
age_heatmap(records) ==
    LET index == Sorted(Range(Column(records, "AGEXACTM")))
        columns == Sorted(Range(Column(records, "AGEXACTP")))
    IN [x |-> columns,
        y |-> [i \in 1..Len(index) |-> index[Len(index) + 1 - i]],
        z |-> [cell \in Range(columns) \X Range(index) |->
                 GroupCount(records,
                            [AGEXACTP |-> cell[1], AGEXACTM |-> cell[2]])]]

ind_to_origine_nom ==
    (1 :> "Father") @@ (2 :> "Mother") @@ (3 :> "Father - Mother")
    @@ (4 :> "Mother - Father") @@ (5 :> "Other")

ind_to_nat == (1 :> "French") @@ (2 :> "Foreign")

last_name_choice_default_other(ser) ==
    IF ser["ORIGINOM"] \in DOMAIN ind_to_origine_nom
    THEN ind_to_origine_nom[ser["ORIGINOM"]]
    ELSE "Other"

\* ind_to_origine_nom.get(ser["ORIGINOM"], "Father")
last_name_choice(ser) ==
    IF ser["ORIGINOM"] \in DOMAIN ind_to_origine_nom
    THEN ind_to_origine_nom[ser["ORIGINOM"]]
    ELSE "Father"

\* df["Last name choice"] = df.apply(...)
WithLastNameChoice(records) ==
    [i \in 1..Len(records) |->
        ("Last name choice" :> last_name_choice(records[i]))
        @@ [c \in DOMAIN records[i] \ {"Last name choice"} |-> records[i][c]]]

\* the place of a label in the sorted group keys (string order)
LabelRank ==
    ("Father" :> 1) @@ ("Father - Mother" :> 2) @@ ("Mother" :> 3)
    @@ ("Mother - Father" :> 4) @@ ("Other" :> 5)

LabelOfRank == <<"Father", "Father - Mother", "Mother", "Mother - Father", "Other">>

\* the groups of groupby(["INDNATP", "INDNATM", "Last name choice"]), in
\* key order, each with its count
Groups(records) ==
    LET kept == {i \in 1..Len(records) :
                    /\ records[i]["INDNATP"] # Missing
                    /\ records[i]["INDNATM"] # Missing}
        codes == {records[i]["INDNATP"] * 100 + records[i]["INDNATM"] * 10
                    + LabelRank[records[i]["Last name choice"]] : i \in kept}
        order == Sorted(codes)
    IN [g \in 1..Len(order) |->
          LET key == ("INDNATP" :> order[g] \div 100)
                     @@ ("INDNATM" :> (order[g] \div 10) % 10)
                     @@ ("Last name choice" :> LabelOfRank[order[g] % 10])
          IN key @@ ("ANAIS" :> GroupCount(records, key))]

\* the data frame handed to px.sunburst
Sunburst(groups) ==
    [g \in 1..Len(groups) |->
        ("Births" :> groups[g]["ANAIS"])
        @@ ("Parents nationality (father/mother)" :>
                ind_to_nat[groups[g]["INDNATP"]] \o "/"
                \o ind_to_nat[groups[g]["INDNATM"]])
        @@ ("Last name choice" :> groups[g]["Last name choice"])]

\* last_name_pie: the records with the new column, and the figure; a
\* nationality flag that is no key of ind_to_nat raises KeyError
last_name_pie(records) ==
    LET labelled == WithLastNameChoice(records)
        groups == Groups(labelled)
        ok == \A g \in 1..Len(groups) :
                /\ groups[g]["INDNATP"] \in DOMAIN ind_to_nat
                /\ groups[g]["INDNATM"] \in DOMAIN ind_to_nat
    IN [df |-> labelled,
        raised |-> ~ok,
        figure |-> IF ok THEN Sunburst(groups) ELSE <<>>]

\* last_name_line: one point per father's age and label; reading a column
\* the frame does not have raises KeyError
last_name_line(records) ==
    IF \E i \in 1..Len(records) : "Last name choice" \notin DOMAIN records[i]
    THEN [raised |-> TRUE, figure |-> <<>>]
    ELSE
      LET ages == Sorted(Range(Column(records, "AGEXACTP")))
          names == Unique(Column(records, "Last name choice"))
          point(age, name_choice) ==
              <<age, name_choice,
                Percent(
                  MaskSum([j \in 1..Len(records) |->
                            /\ \/ records[j]["AGEXACTP"] = age
                               \/ records[j]["AGEXACTM"] = age
                            /\ records[j]["Last name choice"] = name_choice]),
                  MaskSum([j \in 1..Len(records) |->
                            \/ records[j]["AGEXACTP"] = age
                            \/ records[j]["AGEXACTM"] = age]))>>
      IN [raised |-> FALSE,
          figure |-> [k \in 1..(Len(ages) * Len(names)) |->
                        point(ages[((k - 1) \div Len(names)) + 1],
                              names[((k - 1) % Len(names)) + 1])]]

recognition_and(records) ==
    LET ages == Sorted(Range(Column(records, "AGEXACTP")))
        rate(parent, age) ==
            LET agecol == IF parent = "Mother" THEN "AGEXACTM" ELSE "AGEXACTP"
                reccol == IF parent = "Mother" THEN "ARECM" ELSE "ARECP"
            IN Percent(
                 MaskSum([j \in 1..Len(records) |->
                            /\ records[j][agecol] = age
                            /\ (records[j][reccol] # 0 /\ records[j]["AMAR"] # 0)]),
                 MaskSum([j \in 1..Len(records) |-> records[j][agecol] = age]))
    IN [k \in 1..(2 * Len(ages)) |->
          LET parent == IF k % 2 = 1 THEN "Mother" ELSE "Father"
              age == ages[(k + 1) \div 2]
          IN <<parent, age, rate(parent, age)>>]

\* recognition: for each father's age, the mother's point then the
\* father's point
recognition(records) ==
    LET ages == Sorted(Range(Column(records, "AGEXACTP")))
        rate(parent, age) ==
            LET agecol == IF parent = "Mother" THEN "AGEXACTM" ELSE "AGEXACTP"
                reccol == IF parent = "Mother" THEN "ARECM" ELSE "ARECP"
            IN Percent(
                 MaskSum([j \in 1..Len(records) |->
                            /\ records[j][agecol] = age
                            /\ (records[j][reccol] # 0 \/ records[j]["AMAR"] # 0)]),
                 MaskSum([j \in 1..Len(records) |-> records[j][agecol] = age]))
    IN [k \in 1..(2 * Len(ages)) |->
          LET parent == IF k % 2 = 1 THEN "Mother" ELSE "Father"
              age == ages[(k + 1) \div 2]
          IN <<parent, age, rate(parent, age)>>]

layout_order_line_first ==
    <<"age_heatmap", "last_name_line", "last_name_pie", "recognition">>

\* the order in which the list of app.layout calls the figure functions
layout_order ==
    <<"age_heatmap", "last_name_pie", "last_name_line", "recognition">>

NextFigure(name) ==
    /\ pc = "layout"
    /\ Len(layout) < Len(layout_order)
    /\ layout_order[Len(layout) + 1] = name

\* the figure joins the layout; after the last one the server starts
Placed(name, figure) ==
    /\ layout' = Append(layout, [className |-> name, figure |-> figure])
    /\ pc' = IF Len(layout) + 1 = Len(layout_order) THEN "serving" ELSE "layout"

\* an exception leaves the script
Raised ==
    /\ pc' = "crashed"
    /\ UNCHANGED layout

LayoutAgeHeatmap ==
    /\ NextFigure("age_heatmap")
    /\ Placed("age_heatmap", age_heatmap(df))
    /\ UNCHANGED <<csv, geojson, df, gdf, df_choropleth, df_barplot, graphs>>

LayoutLastNamePie ==
    /\ NextFigure("last_name_pie")
    /\ LET r == last_name_pie(df)
       IN /\ df' = r.df
          /\ IF r.raised THEN Raised ELSE Placed("last_name_pie", r.figure)
    /\ UNCHANGED <<csv, geojson, gdf, df_choropleth, df_barplot, graphs>>

LayoutLastNameLine ==
    /\ NextFigure("last_name_line")
    /\ LET r == last_name_line(df)
       IN IF r.raised THEN Raised ELSE Placed("last_name_line", r.figure)
    /\ UNCHANGED <<csv, geojson, df, gdf, df_choropleth, df_barplot, graphs>>

LayoutRecognition ==
    /\ NextFigure("recognition")
    /\ Placed("recognition", recognition(df))
    /\ UNCHANGED <<csv, geojson, df, gdf, df_choropleth, df_barplot, graphs>>

----------------------------------------------------------------------------
(* Callbacks. *)

Scales == {"Absolute", "Logarithmic"}
Bars == {"Absolute", "Normalized"}
DataTypes == {"Births", "Procreations"}

map_birth_var == ("Absolute" :> "Births (abs)") @@ ("Logarithmic" :> "Births (log)")
bar_birth_var == ("Absolute" :> "Births (abs)") @@ ("Normalized" :> "Births (norm)")
type_var == ("Births" :> "Month (birth)") @@ ("Procreations" :> "Month (procreation)")

update_map(scale) ==
    /\ pc = "serving"
    /\ graphs' =
         ("choropleth-graph" :>
            [locations |-> Column(df_choropleth, "Department"),
             color_column |-> map_birth_var[scale],
             color |-> Column(df_choropleth, map_birth_var[scale]),
             geojson |-> gdf])
         @@ graphs
    /\ UNCHANGED <<csv, geojson, pc, df, gdf, df_choropleth, df_barplot, layout>>

update_barplot_fills_alias(bars, data_type) ==
    /\ pc = "serving"
    /\ df_barplot' =
         [i \in 1..Len(df_barplot) |->
            [df_barplot[i] EXCEPT !["Number"] = df_barplot[i][bar_birth_var[bars]]]]
    /\ graphs' =
         ("barplot-graph" :>
            [x_column |-> type_var[data_type],
             x |-> Column(df_barplot, type_var[data_type]),
             y_column |-> bar_birth_var[bars],
             y |-> Column(df_barplot, bar_birth_var[bars]),
             title |-> data_type \o " per month"])
         @@ graphs
    /\ UNCHANGED <<csv, geojson, pc, df, gdf, df_choropleth, layout>>

update_barplot(bars, data_type) ==
    /\ pc = "serving"
    /\ graphs' =
         ("barplot-graph" :>
            [x_column |-> type_var[data_type],
             x |-> Column(df_barplot, type_var[data_type]),
             y_column |-> bar_birth_var[bars],
             y |-> Column(df_barplot, bar_birth_var[bars]),
             title |-> data_type \o " per month"])
         @@ graphs
    /\ UNCHANGED <<csv, geojson, pc, df, gdf, df_choropleth, df_barplot, layout>>

UpdateMap == \E scale \in Scales : update_map(scale)

UpdateBarplot == \E bars \in Bars, data_type \in DataTypes : update_barplot(bars, data_type)

----------------------------------------------------------------------------

Next ==
    \/ LoadData
    \/ LoadGeometry
    \/ DfChoropleth
    \/ DfBarplot
    \/ LayoutAgeHeatmap
    \/ LayoutLastNamePie
    \/ LayoutLastNameLine
    \/ LayoutRecognition
    \/ UpdateMap
    \/ UpdateBarplot

Spec == Init /\ [][Next]_vars

----------------------------------------------------------------------------
(* Properties. *)

RECURSIVE SumSeq(_)
SumSeq(s) == IF s = <<>> THEN 0 ELSE Head(s) + SumSeq(Tail(s))

Abs(x) == IF x < 0 THEN -x ELSE x

Loaded == pc # "clean_and_read_data"
ChoroplethBuilt == pc \notin {"clean_and_read_data", "read_file", "df_choropleth"}
BarplotBuilt == ChoroplethBuilt /\ pc # "df_barplot"
InLayout(name) == \E i \in 1..Len(layout) : layout[i].className = name
FigureOf(name) == layout[CHOOSE i \in 1..Len(layout) : layout[i].className = name].figure

\* the zero-padded department code of an input cell
ZeroPadded(v) ==
    IF v.type = "int"
    THEN (IF v.int < 10 THEN "0" \o IntToStr(v.int) ELSE IntToStr(v.int))
    ELSE (IF Len(v.str) = 1 THEN "0" \o v.str ELSE v.str)

InputsPaddedTo(c) == {j \in 1..Len(csv) : ZeroPadded(csv[j]["DEPNAIS"]) = c}

C1_RowCounts ==
    /\ Len(df_choropleth) = Len(geojson)
    /\ \A i \in 1..Len(geojson) :
        /\ df_choropleth[i]["Department"] = geojson[i]
        /\ df_choropleth[i]["Births (abs)"] = Cardinality(InputsPaddedTo(geojson[i]))

\* C1 as stated: each row of the choropleth table counts the input records
\* whose zero-padded code is the row's code, and the counts of all rows sum
\* to the total number of input records.
C1_SumIsTotal ==
    ChoroplethBuilt =>
        /\ C1_RowCounts
        /\ SumSeq(Column(df_choropleth, "Births (abs)")) = Len(csv)

\* C1, amended: each row of the choropleth table counts the input records
\* whose zero-padded code is the row's code, and the counts of all rows sum
\* to the number of input records whose zero-padded code is a code of the
\* geometry reference; records of other departments are counted nowhere.
C1_SumIsMatched ==
    ChoroplethBuilt =>
        /\ C1_RowCounts
        /\ SumSeq(Column(df_choropleth, "Births (abs)"))
             = Cardinality({j \in 1..Len(csv) :
                              ZeroPadded(csv[j]["DEPNAIS"]) \in Range(geojson)})

C1_Witness ==
    /\ ChoroplethBuilt
    /\ \E i \in 1..Len(geojson), j \in 1..Len(csv) :
        /\ csv[j]["DEPNAIS"] = IntVal(1)
        /\ geojson[i] = "01"
        /\ df_choropleth[i]["Births (abs)"] >= 1
    /\ SumSeq(Column(df_choropleth, "Births (abs)")) < Len(csv)

\* C2: clean_dep turns a code whose string form has one character into "0"
\* followed by that character and returns any longer string form unchanged;
\* once the records are loaded, a code that was one or two characters long is
\* two characters long and no one-character code is left.
C2_CleanDep ==
    /\ \A dep \in DepValues \cup Range(Column(csv, "DEPNAIS")) :
        /\ Len(PyStr(dep)) = 1 =>
              clean_dep(dep) = "0" \o PyStr(dep) /\ Len(clean_dep(dep)) = 2
        /\ Len(PyStr(dep)) >= 2 => clean_dep(dep) = PyStr(dep)
    /\ Loaded =>
        /\ Len(df) = Len(csv)
        /\ \A i \in 1..Len(csv) :
            /\ df[i]["DEPNAIS"].type = "str"
            /\ Len(PyStr(csv[i]["DEPNAIS"])) \in {1, 2} =>
                  Len(df[i]["DEPNAIS"].str) = 2
            /\ Len(df[i]["DEPNAIS"].str) # 1
            /\ Len(PyStr(csv[i]["DEPNAIS"])) >= 2 =>
                  df[i]["DEPNAIS"].str = PyStr(csv[i]["DEPNAIS"])

C2_Witness ==
    /\ Loaded
    /\ \E i, j \in 1..Len(csv) :
        /\ csv[i]["DEPNAIS"] = IntVal(1)
        /\ df[i]["DEPNAIS"] = StrVal("01")
        /\ csv[j]["DEPNAIS"] = StrVal("971")
        /\ df[j]["DEPNAIS"] = StrVal("971")

GraphsSelectColumns ==
    /\ "choropleth-graph" \in DOMAIN graphs =>
        LET fig == graphs["choropleth-graph"]
        IN /\ fig.color_column \in {"Births (abs)", "Births (log)"}
           /\ fig.color = Column(df_choropleth, fig.color_column)
           /\ fig.locations = Column(df_choropleth, "Department")
    /\ "barplot-graph" \in DOMAIN graphs =>
        LET fig == graphs["barplot-graph"]
        IN /\ fig.x_column \in {"Month (birth)", "Month (procreation)"}
           /\ fig.y_column \in {"Births (abs)", "Births (norm)"}
           /\ fig.x = Column(df_barplot, fig.x_column)
           /\ fig.y = Column(df_barplot, fig.y_column)

\* C3: once the server runs, no invocation of update_map or update_barplot
\* changes the records, the choropleth table or the monthly table, and every
\* figure a callback returned holds columns of those tables as they are.
C3_TablesFrozen ==
    /\ [][pc = "serving" =>
            /\ df' = df
            /\ df_choropleth' = df_choropleth
            /\ df_barplot' = df_barplot
            /\ gdf' = gdf
            /\ layout' = layout]_vars
    /\ []GraphsSelectColumns

C3_Witness ==
    /\ pc = "serving"
    /\ DOMAIN graphs = {"choropleth-graph", "barplot-graph"}
    /\ graphs["choropleth-graph"].color_column = "Births (log)"
    /\ graphs["barplot-graph"].y_column = "Births (norm)"
    /\ graphs["barplot-graph"].x_column = "Month (procreation)"
    /\ Len(df_barplot) = 2
    /\ df_barplot[2]["Births (abs)"] # df_barplot[2]["Births (norm)"]

\* C4: the monthly table has exactly one row for each birth month present in
\* the input and none for an absent month, in ascending order of month
\* index, and each row counts the records of its month.
C4_MonthlyRows ==
    BarplotBuilt =>
        /\ {df_barplot[i]["Month_ind"] : i \in 1..Len(df_barplot)}
             = {csv[j]["MNAIS"] : j \in 1..Len(csv)}
        /\ \A i \in 1..(Len(df_barplot) - 1) :
              df_barplot[i]["Month_ind"] < df_barplot[i + 1]["Month_ind"]
        /\ \A i \in 1..Len(df_barplot) :
              df_barplot[i]["Births (abs)"] =
                Cardinality({j \in 1..Len(csv) :
                               csv[j]["MNAIS"] = df_barplot[i]["Month_ind"]})

C4_Witness ==
    /\ BarplotBuilt
    /\ Len(csv) >= 2
    /\ csv[1]["MNAIS"] > csv[2]["MNAIS"]
    /\ Len(df_barplot) = 2
    /\ df_barplot[1]["Month_ind"] = csv[2]["MNAIS"]

\* the month lengths of the 2019 calendar
DaysIn2019 == <<31, 28, 31, 30, 31, 30, 31, 31, 30, 31, 30, 31>>

\* n is a nearest integer to 30 * a / d
Nearest(n, a, d) == 2 * Abs(30 * a - n * d) <= d
\* 30 * a / d lies halfway between two integers
Halfway(n, a, d) == 2 * Abs(30 * a - n * d) = d

\* C5 as stated, round taking a halfway value to the next integer up (the
\* rounding of round() outside Python): birthsNormalized is
\* round(birthsAbsolute / daysInMonth(2019, monthIndex) * 30) in every row.
C5_RoundHalfUp ==
    BarplotBuilt =>
        \A i \in 1..Len(df_barplot) :
            LET a == df_barplot[i]["Births (abs)"]
                n == df_barplot[i]["Births (norm)"]
                d == DaysIn2019[df_barplot[i]["Month_ind"]]
            IN /\ Nearest(n, a, d)
               /\ Halfway(n, a, d) => n * d > 30 * a

\* C5, amended: birthsNormalized is the integer nearest to
\* birthsAbsolute / daysInMonth(2019, monthIndex) * 30, and when that value
\* lies exactly halfway between two integers (month 2, A = 7, 21, 35, ...)
\* it is the even one of the two: A = 21 gives 22, not 23.
C5_RoundHalfEven ==
    BarplotBuilt =>
        \A i \in 1..Len(df_barplot) :
            LET a == df_barplot[i]["Births (abs)"]
                n == df_barplot[i]["Births (norm)"]
                d == DaysIn2019[df_barplot[i]["Month_ind"]]
            IN /\ Nearest(n, a, d)
               /\ Halfway(n, a, d) => n % 2 = 0
               /\ df_barplot[i]["Number"] = n

C5_Witness ==
    /\ BarplotBuilt
    /\ \E i \in 1..Len(df_barplot) :
        /\ df_barplot[i]["Month_ind"] = 2
        /\ df_barplot[i]["Births (abs)"] = 21
        /\ df_barplot[i]["Births (norm)"] = 22

\* the label of the month nine months before birth month m of 2019
NineMonthsBefore(m) ==
    IF m - 9 >= 1 THEN months[m - 9] \o " 2019" ELSE months[m + 3] \o " 2018"

\* C6: the procreation label of a row is its birth month shifted back nine
\* months, with the year of the shifted month: April 2018 .. December 2018
\* for birth months 1..9 and January 2019 .. March 2019 for 10..12; it is a
\* function of the month index alone.
C6_Procreation ==
    BarplotBuilt =>
        \A i \in 1..Len(df_barplot) :
            LET m == df_barplot[i]["Month_ind"]
            IN /\ m \in 1..12
               /\ df_barplot[i]["Month (birth)"] = months[m]
               /\ df_barplot[i]["Month (procreation)"] = NineMonthsBefore(m)
               /\ m <= 9 => df_barplot[i]["Month (procreation)"] = months[m + 3] \o " 2018"
               /\ m = 4 => df_barplot[i]["Month (procreation)"] = "July 2018"
               /\ m = 10 => df_barplot[i]["Month (procreation)"] = "January 2019"

C6_Witness ==
    /\ BarplotBuilt
    /\ Len(df_barplot) = 2
    /\ df_barplot[1]["Month_ind"] = 9
    /\ df_barplot[1]["Month (procreation)"] = "December 2018"
    /\ df_barplot[2]["Month_ind"] = 10
    /\ df_barplot[2]["Month (procreation)"] = "January 2019"

\* the last-name-origin label of a code: the fixed mapping of 1..5, and
\* "Father" for any other code and for a missing one
OriginLabel(code) ==
    CASE code = 1 -> "Father"
      [] code = 2 -> "Mother"
      [] code = 3 -> "Father - Mother"
      [] code = 4 -> "Mother - Father"
      [] code = 5 -> "Other"
      [] OTHER -> "Father"

EitherParentAged(age) ==
    {j \in 1..Len(csv) : csv[j]["AGEXACTP"] = age \/ csv[j]["AGEXACTM"] = age}

\* v is the percentage 100 * part / whole, whole > 0
IsPercent(v, part, whole) ==
    /\ ~v.nan
    /\ v.den > 0
    /\ v.num * whole = 100 * part * v.den

\* C7 as stated: the last-name-by-age table has an entry for each age that
\* appears in either parent's age column, and for each such age and each
\* label the entry is the share of the label among the records where either
\* parent has that age.
C7_EveryParentAge ==
    InLayout("last_name_line") =>
        LET fig == FigureOf("last_name_line")
            ages == Range(Column(csv, "AGEXACTP")) \cup Range(Column(csv, "AGEXACTM"))
            labels == {OriginLabel(csv[j]["ORIGINOM"]) : j \in 1..Len(csv)}
        IN \A age \in ages, label \in labels :
             \E k \in 1..Len(fig) :
               /\ fig[k][1] = age
               /\ fig[k][2] = label
               /\ IsPercent(fig[k][3],
                            Cardinality({j \in EitherParentAged(age) :
                                           OriginLabel(csv[j]["ORIGINOM"]) = label}),
                            Cardinality(EitherParentAged(age)))

NatLabel(flag) == IF flag = 1 THEN "French" ELSE "Foreign"

\* the rows of the sunburst table a record belongs to
GroupsOf(fig, rec) ==
    {g \in 1..Len(fig) :
        /\ fig[g]["Parents nationality (father/mother)"]
             = NatLabel(rec["INDNATP"]) \o "/" \o NatLabel(rec["INDNATM"])
        /\ fig[g]["Last name choice"] = OriginLabel(rec["ORIGINOM"])}

\* C8: every input record is counted in exactly one group (mother's flag,
\* father's flag, label) of the last-name-origin table, its label being that
\* of the fixed mapping and "Father" for a code outside 1..5 or missing, and
\* the group counts sum to the number of records.
C8_OriginGroups ==
    InLayout("last_name_pie") =>
        LET fig == FigureOf("last_name_pie")
        IN /\ \A j \in 1..Len(csv) :
                /\ df[j]["Last name choice"] = OriginLabel(csv[j]["ORIGINOM"])
                /\ Cardinality(GroupsOf(fig, csv[j])) = 1
           /\ \A g \in 1..Len(fig) :
                fig[g]["Births"] =
                    Cardinality({j \in 1..Len(csv) : g \in GroupsOf(fig, csv[j])})
           /\ SumSeq(Column(fig, "Births")) = Len(csv)

C8_Witness ==
    /\ InLayout("last_name_pie")
    /\ Len(csv) = 2
    /\ csv[1]["ORIGINOM"] = 9
    /\ csv[1]["INDNATP"] = 2
    /\ csv[2]["ORIGINOM"] = Missing
    /\ \E g \in 1..Len(FigureOf("last_name_pie")) :
        /\ FigureOf("last_name_pie")[g]["Parents nationality (father/mother)"]
             = "Foreign/French"
        /\ FigureOf("last_name_pie")[g]["Last name choice"] = "Father"
        /\ FigureOf("last_name_pie")[g]["Births"] = 1

Aged(parent, age) ==
    {j \in 1..Len(csv) :
        csv[j][IF parent = "Mother" THEN "AGEXACTM" ELSE "AGEXACTP"] = age}

Recognised(parent, j) ==
    \/ csv[j][IF parent = "Mother" THEN "ARECM" ELSE "ARECP"] # 0
    \/ csv[j]["AMAR"] # 0

\* C9: each entry (parent, age) of the recognition-by-age table is 100 times
\* the number of records where that parent has that age and was recognised
\* or married, over the number of records where that parent has that age;
\* with no such record the entry is not a number: never 0, never an error.
C9_RecognitionRate ==
    /\ pc # "crashed"
    /\ InLayout("recognition") =>
        LET fig == FigureOf("recognition")
        IN \A k \in 1..Len(fig) :
             LET parent == fig[k][1]
                 age == fig[k][2]
                 whole == Cardinality(Aged(parent, age))
                 part == Cardinality({j \in Aged(parent, age) : Recognised(parent, j)})
             IN /\ parent \in {"Mother", "Father"}
                /\ IF whole = 0 THEN fig[k][3].nan
                   ELSE IsPercent(fig[k][3], part, whole)

C9_Witness ==
    /\ InLayout("recognition")
    /\ \E k \in 1..Len(FigureOf("recognition")) :
        /\ FigureOf("recognition")[k][1] = "Mother"
        /\ FigureOf("recognition")[k][3].nan
    /\ \E k \in 1..Len(FigureOf("recognition")) :
        /\ FigureOf("recognition")[k][1] = "Mother"
        /\ ~FigureOf("recognition")[k][3].nan
        /\ FigureOf("recognition")[k][3].num = 50 * FigureOf("recognition")[k][3].den

HasLastNameChoice == \A i \in 1..Len(df) : "Last name choice" \in DOMAIN df[i]

Position(name) == CHOOSE i \in 1..Len(layout) : layout[i].className = name

\* C10: whenever last_name_line is about to run, last_name_pie has run and
\* every record carries the "Last name choice" label; the startup never
\* raises; and on records without the label last_name_line raises instead
\* of returning a table.
C10_PieBeforeLine ==
    /\ pc # "crashed"
    /\ ENABLED LayoutLastNameLine =>
          InLayout("last_name_pie") /\ HasLastNameChoice
    /\ InLayout("last_name_line") =>
          /\ InLayout("last_name_pie")
          /\ Position("last_name_pie") < Position("last_name_line")
          /\ HasLastNameChoice
    /\ (Loaded /\ ~HasLastNameChoice) =>
          /\ ~InLayout("last_name_pie")
          /\ last_name_line(df).raised
          /\ last_name_line(df).figure = <<>>

C10_Witness ==
    /\ pc = "serving"
    /\ Position("last_name_pie") = 2
    /\ Position("last_name_line") = 3
    /\ Len(FigureOf("last_name_line")) = 4
    /\ \A k \in 1..4 : ~FigureOf("last_name_line")[k][3].nan
====
